---------------------------- MODULE Spec2Model ----------------------------
(***************************************************************************)
(* Model of the destination-resolution pipeline of src/src/App.js: the    *)
(* React component App, its state hooks, the asynchronous handler         *)
(* fetchDestinations with its helpers fetchCityCoordinates and            *)
(* fetchDataWithRetry, and the view handlers.                             *)
(*                                                                         *)
(* JavaScript values.  An optional value (a field that may be absent, a   *)
(* value that may be undefined/null) is a sequence of length at most one: *)
(* <<>> is undefined/null, <<v>> is the value v.  A string the code       *)
(* inspects character by character (the city text) is a sequence of       *)
(* one-character strings.  An object is a function whose domain is the    *)
(* set of keys present on it.                                             *)
(***************************************************************************)
EXTENDS Integers, Sequences, FiniteSets, TLC

(***************************************************************************)
(* Bounds of the model.                                                    *)
(***************************************************************************)
\* number of invocations of fetchDestinations in one behaviour
MaxCalls == 2
\* largest value of the retries parameter explored by SpecRetry
MaxRetries == 3
\* longest element list explored by SpecList
MaxList == 2

(***************************************************************************)
(* Program constants.                                                      *)
(***************************************************************************)
cardsPerPage == 21
\* fetchDataWithRetry(overpassQuery, 3, 5000)
DefaultRetries == 3

Null == <<>>
Some(v) == <<v>>

\* obj.key of an object: undefined when the key is absent
Field(obj, key) == IF key \in DOMAIN obj THEN Some(obj[key]) ELSE Null

\* JavaScript truthiness of an optional number: undefined, null and 0 are falsy
TruthyNum(x) == x # Null /\ x[1] # 0
\* JavaScript truthiness of an optional string: undefined, null and "" are falsy
TruthyStr(x) == x # Null /\ x[1] # ""

(***************************************************************************)
(* city.trim(): the city text without its leading and trailing blanks.     *)
(***************************************************************************)
RECURSIVE TrimLeft(_)
TrimLeft(s) == IF s # <<>> /\ Head(s) = " " THEN TrimLeft(Tail(s)) ELSE s

RECURSIVE TrimRight(_)
TrimRight(s) ==
    IF s # <<>> /\ s[Len(s)] = " " THEN TrimRight(SubSeq(s, 1, Len(s) - 1)) ELSE s

\* a variant that trims nothing
TrimIdentity(s) == s

Trim(s) == TrimRight(TrimLeft(s))

\* the guard of line 44: !city.trim()
IsBlank(s) == Trim(s) = <<>>

(***************************************************************************)
(* The mapping of one raw element to a destination, lines 79-90.           *)
(***************************************************************************)
\* element.tags.tourism || element.tags.historic || element.tags.leisure
\*   || element.tags.amenity || 'Unknown'
\* a variant that reads the amenity tag first
CategoryAmenityFirst(element) ==
    LET tags == element["tags"] IN
    IF TruthyStr(Field(tags, "amenity")) THEN tags["amenity"]
    ELSE IF TruthyStr(Field(tags, "tourism")) THEN tags["tourism"]
    ELSE IF TruthyStr(Field(tags, "historic")) THEN tags["historic"]
    ELSE IF TruthyStr(Field(tags, "leisure")) THEN tags["leisure"]
    ELSE "Unknown"

Category(element) ==
    LET tags == element["tags"] IN
    IF TruthyStr(Field(tags, "tourism")) THEN tags["tourism"]
    ELSE IF TruthyStr(Field(tags, "historic")) THEN tags["historic"]
    ELSE IF TruthyStr(Field(tags, "leisure")) THEN tags["leisure"]
    ELSE IF TruthyStr(Field(tags, "amenity")) THEN tags["amenity"]
    ELSE "Unknown"

\* element.tags.name || 'Unknown'
Name(element) ==
    LET tags == element["tags"] IN
    IF TruthyStr(Field(tags, "name")) THEN tags["name"] ELSE "Unknown"

\* element.lat || (element.center ? element.center.lat : null), and the same
\* for lon: axis is "lat" or "lon"
GeoAxis(element, axis) ==
    IF TruthyNum(Field(element, axis)) THEN Field(element, axis)
    ELSE IF "center" \in DOMAIN element THEN Field(element["center"], axis)
    ELSE Null

FormatElement(element) ==
    [id       |-> element["id"],
     name     |-> Name(element),
     category |-> Category(element),
     geoCode  |-> [latitude  |-> GeoAxis(element, "lat"),
                   longitude |-> GeoAxis(element, "lon")],
     tags     |-> DOMAIN element["tags"],
     distance |-> Null,
     rating   |-> Null]

\* element.tags.name of an element without tags is a TypeError
FormatThrows(data) == \E k \in 1..Len(data) : "tags" \notin DOMAIN data[k]

\* data.map((element) => ({...}))
FormatDestinations(data) == [k \in 1..Len(data) |-> FormatElement(data[k])]

\* [...new Set(formattedDestinations.map((item) => item.category))]
RECURSIVE Distinct(_)
Distinct(s) ==
    IF s = <<>> THEN <<>>
    ELSE LET front == Distinct(SubSeq(s, 1, Len(s) - 1))
             last  == s[Len(s)]
         IN IF \E k \in 1..Len(front) : front[k] = last
            THEN front ELSE Append(front, last)

CategoriesOf(formatted) ==
    Distinct([k \in 1..Len(formatted) |-> formatted[k]["category"]])

\* Math.ceil(formattedDestinations.length / cardsPerPage)
TotalPagesOf(formatted) == (Len(formatted) + cardsPerPage - 1) \div cardsPerPage


(***************************************************************************)
(* The inputs: what the user types and what the two services answer.       *)
(***************************************************************************)
\* texts of the city field: empty, one blank, two cities
Cities == {<<>>, <<" ">>, <<"a">>, <<"b">>}

\* answers of the geocoding service (axios.get of line 22): a transport
\* error, a body that is no array, an empty array, one match
GeoResponses ==
    {[kind |-> "error"],
     [kind |-> "ok", data |-> Null],
     [kind |-> "ok", data |-> Some(<<>>)],
     [kind |-> "ok", data |-> Some(<<[lat |-> "48.85", lon |-> "2.35"]>>)]}

NoTags == [k \in {} |-> ""]

Louvre ==
    [id |-> 1, lat |-> 10, lon |-> 20,
     tags |-> [name |-> "Louvre", tourism |-> "museum", amenity |-> "cafe"]]
Garden == [id |-> 2, center |-> [lat |-> 10, lon |-> 20], tags |-> [leisure |-> "park"]]
Equator == [id |-> 3, lat |-> 0, lon |-> 0, tags |-> NoTags]
Untagged == [id |-> 4, lat |-> 10, lon |-> 20]

\* one element more than a page holds
Viewpoints ==
    [k \in 1..(cardsPerPage + 1) |->
        [id |-> 100 + k, lat |-> k, lon |-> k, tags |-> [tourism |-> "viewpoint"]]]

\* bodies of successful answers of the point-of-interest service (response.data
\* of line 110): an object with an element list, or one without
SampleBodies ==
    {[elements |-> <<>>],
     [elements |-> <<Louvre>>],
     [elements |-> <<Garden, Equator>>],
     [elements |-> <<Louvre, Untagged>>],
     [remark |-> "runtime error"]}

\* the same with a list longer than one page
ViewBodies == SampleBodies \cup {[elements |-> Viewpoints]}

(***************************************************************************)
(* State.                                                                  *)
(***************************************************************************)
VARIABLES
    city,              \* useState('') of line 10
    destinations,      \* useState([]) of line 11
    categories,        \* useState([]) of line 12
    selectedCategory,  \* useState('') of line 13
    page,              \* useState(1) of line 14
    totalPages,        \* useState(1) of line 15
    loading,           \* useState(false) of line 16
    retries,           \* the retries argument of fetchDataWithRetry
    nCalls,            \* how many times fetchDestinations has been invoked
    resolution         \* per invocation: the position and locals of the call

view == <<city, destinations, categories, selectedCategory, page, totalPages, loading>>
vars == <<city, destinations, categories, selectedCategory, page, totalPages, loading,
          retries, nCalls, resolution>>

Calls == 1..MaxCalls

\* One invocation of fetchDestinations.  pc is the await it is suspended at;
\* city, cityCoordinates, i and data are its locals; the rest records what it
\* did: the requests it issued, the answers it got, what it logged, which
\* return it left by, the list it handed to setDestinations.
NewResolution ==
    [pc              |-> "Idle",
     city            |-> <<>>,
     cityCoordinates |-> Null,
     i               |-> 0,
     data            |-> Null,
     result          |-> <<>>,
     outcome         |-> "None",
     geoCalls        |-> 0,
     geoServed       |-> <<>>,
     fetchCalls      |-> 0,
     served          |-> <<>>,
     logged          |-> 0,
     waits           |-> 0,
     reports         |-> {},
     escaped         |-> FALSE]

InitView ==
    /\ city = <<>>
    /\ destinations = <<>>
    /\ categories = <<>>
    /\ selectedCategory = ""
    /\ page = 1
    /\ totalPages = 1
    /\ loading = FALSE

Init ==
    /\ InitView
    /\ retries = DefaultRetries
    /\ nCalls = 0
    /\ resolution = [n \in Calls |-> NewResolution]

InFlight(n) == resolution[n].pc \in {"Geocoding", "Fetching", "Waiting"}

(***************************************************************************)
(* onChange of the city field, line 149.                                   *)
(***************************************************************************)
SetCity ==
    /\ \E c \in Cities : c # city /\ city' = c
    /\ UNCHANGED <<destinations, categories, selectedCategory, page, totalPages,
                   loading, retries, nCalls, resolution>>

(***************************************************************************)
(* fetchDestinations up to its first await, lines 43-49 and 20-22: the     *)
(* blank check, setLoading(true), the geocoding request.                   *)
(***************************************************************************)
Search ==
    /\ nCalls < MaxCalls
    /\ nCalls' = nCalls + 1
    /\ IF IsBlank(city)
       THEN /\ resolution' = [resolution EXCEPT ![nCalls + 1] =
                   [@ EXCEPT !.pc = "Done", !.city = city, !.outcome = "EmptyInput"]]
            /\ UNCHANGED loading
       ELSE /\ resolution' = [resolution EXCEPT ![nCalls + 1] =
                   [@ EXCEPT !.pc = "Geocoding", !.city = city, !.geoCalls = @ + 1]]
            /\ loading' = TRUE
    /\ UNCHANGED <<city, destinations, categories, selectedCategory, page, totalPages,
                   retries>>

(***************************************************************************)
(* fetchCityCoordinates, lines 20-40, applied to the answer of the         *)
(* geocoding service: a transport error, the TypeError of reading .length  *)
(* of a body that is no array, and 'City not found' are all caught at line *)
(* 36, logged, and turned into null.                                       *)
(***************************************************************************)
\* a variant that falls back to a default coordinate instead of null
CityCoordinatesDefault(r) ==
    IF r.kind = "ok" /\ r.data # Null /\ Len(r.data[1]) > 0
    THEN Some([lat |-> r.data[1][1].lat, lon |-> r.data[1][1].lon])
    ELSE Some([lat |-> "0", lon |-> "0"])

CityCoordinates(r) ==
    IF r.kind = "error" THEN Null
    ELSE IF r.data = Null THEN Null
    ELSE IF Len(r.data[1]) = 0 THEN Null
    ELSE Some([lat |-> r.data[1][1].lat, lon |-> r.data[1][1].lon])

(***************************************************************************)
(* The catch of fetchDestinations, lines 95-99: the error is logged, the   *)
(* call falls through to setLoading(false) and returns.  r is the call's   *)
(* record at the throw, why the error.                                     *)
(***************************************************************************)
\* a variant without the catch: the error leaves the call
ThrownEscapes(n, r, why) ==
    /\ resolution' = [resolution EXCEPT ![n] =
            [r EXCEPT !.pc = "Done", !.outcome = why, !.escaped = TRUE]]
    /\ UNCHANGED view

\* a variant whose catch also clears the list
ThrownClears(n, r, why) ==
    /\ resolution' = [resolution EXCEPT ![n] =
            [r EXCEPT !.pc = "Done", !.outcome = why,
                      !.reports = @ \cup {"Error fetching destinations"}]]
    /\ loading' = FALSE
    /\ destinations' = <<>>
    /\ UNCHANGED <<city, categories, selectedCategory, page, totalPages>>

Thrown(n, r, why) ==
    /\ resolution' = [resolution EXCEPT ![n] =
            [r EXCEPT !.pc = "Done", !.outcome = why,
                      !.reports = @ \cup {"Error fetching destinations"}]]
    /\ loading' = FALSE
    /\ UNCHANGED <<city, destinations, categories, selectedCategory, page, totalPages>>

(***************************************************************************)
(* fetchDataWithRetry, lines 103-119.                                      *)
(***************************************************************************)
\* line 104: i < retries
LoopGuard(i, n) == i < n

\* line 113: i < retries - 1
\* a variant that also waits after the last attempt
RetryAlways(i, n) == i < n

RetryAgain(i, n) == i < n - 1

(***************************************************************************)
(* The geocoding request returns: lines 22-40, then 50-70 and 104-106.     *)
(* Without coordinates the call resets loading and returns; with them it   *)
(* builds the query and enters fetchDataWithRetry, which issues its first  *)
(* request.                                                                *)
(***************************************************************************)
\* a variant that repeats the geocoding request once after a transport error
GeocodeRespondRetrying(n, r) ==
    /\ resolution[n].pc = "Geocoding"
    /\ LET seen == [resolution[n] EXCEPT !.geoServed = Append(@, r)]
           cc   == CityCoordinates(r)
       IN IF r.kind = "error" /\ seen.geoCalls < 2
          THEN /\ resolution' = [resolution EXCEPT ![n] =
                      [seen EXCEPT !.geoCalls = @ + 1]]
               /\ UNCHANGED view
          ELSE IF cc = Null
          THEN /\ resolution' = [resolution EXCEPT ![n] =
                      [seen EXCEPT !.pc = "Done", !.outcome = "NoCoordinates",
                                   !.reports = @ \cup {"Error fetching city coordinates"}]]
               /\ loading' = FALSE
               /\ UNCHANGED <<city, destinations, categories, selectedCategory, page,
                              totalPages>>
          ELSE /\ resolution' = [resolution EXCEPT ![n] =
                      [seen EXCEPT !.pc = "Fetching", !.cityCoordinates = cc,
                                   !.i = 0, !.fetchCalls = @ + 1]]
               /\ UNCHANGED view
    /\ UNCHANGED <<retries, nCalls>>

GeocodeRespond(n, r) ==
    /\ resolution[n].pc = "Geocoding"
    /\ LET seen == [resolution[n] EXCEPT !.geoServed = Append(@, r)]
           cc   == CityCoordinates(r)
       IN IF cc = Null
          THEN /\ resolution' = [resolution EXCEPT ![n] =
                      [seen EXCEPT !.pc = "Done", !.outcome = "NoCoordinates",
                                   !.reports = @ \cup {"Error fetching city coordinates"}]]
               /\ loading' = FALSE
               /\ UNCHANGED <<city, destinations, categories, selectedCategory, page,
                              totalPages>>
          ELSE IF LoopGuard(0, retries)
          THEN /\ resolution' = [resolution EXCEPT ![n] =
                      [seen EXCEPT !.pc = "Fetching", !.cityCoordinates = cc,
                                   !.i = 0, !.fetchCalls = @ + 1]]
               /\ UNCHANGED view
          ELSE Thrown(n, [seen EXCEPT !.cityCoordinates = cc], "ExhaustedRetries")
    /\ UNCHANGED <<retries, nCalls>>

\* A request fails (network error, the 60 s timeout, or an answer without a
\* body, whose .elements throws inside the try): lines 111-115.  The
\* attempt is logged; with attempts left the call waits for the delay,
\* otherwise the loop ends and line 118 throws into the catch of line 95.
\* a variant that retries at once, without the delay
OverpassFailNoDelay(n) ==
    /\ resolution[n].pc = "Fetching"
    /\ LET seen == [resolution[n] EXCEPT !.served = Append(@, [kind |-> "error"]),
                                         !.logged = @ + 1]
       IN IF RetryAgain(seen.i, retries)
          THEN /\ resolution' = [resolution EXCEPT ![n] =
                      [seen EXCEPT !.i = @ + 1, !.fetchCalls = @ + 1]]
               /\ UNCHANGED view
          ELSE Thrown(n, seen, "ExhaustedRetries")
    /\ UNCHANGED <<retries, nCalls>>

OverpassFail(n) ==
    /\ resolution[n].pc = "Fetching"
    /\ LET seen == [resolution[n] EXCEPT !.served = Append(@, [kind |-> "error"]),
                                         !.logged = @ + 1]
       IN IF RetryAgain(seen.i, retries)
          THEN /\ resolution' = [resolution EXCEPT ![n] =
                      [seen EXCEPT !.pc = "Waiting", !.waits = @ + 1]]
               /\ UNCHANGED view
          ELSE IF LoopGuard(seen.i + 1, retries)
          THEN /\ resolution' = [resolution EXCEPT ![n] =
                      [seen EXCEPT !.i = @ + 1, !.fetchCalls = @ + 1]]
               /\ UNCHANGED view
          ELSE Thrown(n, seen, "ExhaustedRetries")
    /\ UNCHANGED <<retries, nCalls>>

\* a variant whose promise is never resolved: the call stays suspended
TimerFireLost(n) ==
    /\ resolution[n].pc = "Waiting"
    /\ UNCHANGED vars

\* The delay of line 114 elapses: the loop goes round, lines 104-106, or
\* ends at line 118.
TimerFire(n) ==
    /\ resolution[n].pc = "Waiting"
    /\ IF LoopGuard(resolution[n].i + 1, retries)
       THEN /\ resolution' = [resolution EXCEPT ![n] =
                   [@ EXCEPT !.pc = "Fetching", !.i = @ + 1, !.fetchCalls = @ + 1]]
            /\ UNCHANGED view
       ELSE Thrown(n, resolution[n], "ExhaustedRetries")
    /\ UNCHANGED <<retries, nCalls>>

(***************************************************************************)
(* A request succeeds with the given body: line 110, then lines 72-99.     *)
(***************************************************************************)
OverpassSucceed(n, body) ==
    /\ resolution[n].pc = "Fetching"
    /\ LET data == Field(body, "elements")
           seen == [resolution[n] EXCEPT
                       !.served = Append(@, [kind |-> "ok", data |-> body]),
                       !.data = data]
       IN IF data = Null
          THEN Thrown(n, seen, "TypeError")
          ELSE IF Len(data[1]) = 0
          THEN /\ resolution' = [resolution EXCEPT ![n] =
                      [seen EXCEPT !.pc = "Done", !.outcome = "NoDestinations",
                                   !.reports = @ \cup {"No destinations found."}]]
               /\ loading' = FALSE
               /\ UNCHANGED <<city, destinations, categories, selectedCategory, page,
                              totalPages>>
          ELSE IF FormatThrows(data[1])
          THEN Thrown(n, seen, "TypeError")
          ELSE LET formattedDestinations == FormatDestinations(data[1])
               IN /\ destinations' = formattedDestinations
                  /\ categories' = CategoriesOf(formattedDestinations)
                  /\ totalPages' = TotalPagesOf(formattedDestinations)
                  /\ loading' = FALSE
                  /\ resolution' = [resolution EXCEPT ![n] =
                         [seen EXCEPT !.pc = "Done", !.outcome = "Stored",
                                      !.result = formattedDestinations]]
                  /\ UNCHANGED <<city, selectedCategory, page>>
    /\ UNCHANGED <<retries, nCalls>>

(***************************************************************************)
(* The view handlers: the category select of line 176 and handlePageChange *)
(* of lines 127-129 (the Pagination widget offers 1..totalPages).          *)
(***************************************************************************)
\* lines 121-123
filteredDestinations ==
    LET Selected(destination) == destination.category = selectedCategory
    IN IF selectedCategory # "" THEN SelectSeq(destinations, Selected) ELSE destinations

\* line 125: slice((page - 1) * cardsPerPage, page * cardsPerPage)
Slice(s, from, to) ==
    LET first == IF from < Len(s) THEN from ELSE Len(s)
        last  == IF to < Len(s) THEN to ELSE Len(s)
    IN SubSeq(s, first + 1, last)

paginatedDestinations ==
    Slice(filteredDestinations, (page - 1) * cardsPerPage, page * cardsPerPage)

SelectCategory ==
    /\ \E c \in {""} \cup {categories[k] : k \in 1..Len(categories)} :
          c # selectedCategory /\ selectedCategory' = c
    /\ UNCHANGED <<city, destinations, categories, page, totalPages, loading,
                   retries, nCalls, resolution>>

handlePageChange ==
    /\ \E value \in 1..totalPages : value # page /\ page' = value
    /\ UNCHANGED <<city, destinations, categories, selectedCategory, totalPages,
                   loading, retries, nCalls, resolution>>

Next ==
    \/ SetCity
    \/ Search
    \/ \E n \in Calls : \E r \in GeoResponses : GeocodeRespond(n, r)
    \/ \E n \in Calls : OverpassFail(n)
    \/ \E n \in Calls : TimerFire(n)
    \/ \E n \in Calls : \E body \in SampleBodies : OverpassSucceed(n, body)

\* the resolution pipeline as the program runs it: fetchDataWithRetry is
\* called with 3 retries
Spec == Init /\ [][Next]_vars

\* fetchDataWithRetry under every retries argument from 1 to MaxRetries: the
\* city text is typed before the first search and kept
InitRetry ==
    /\ city \in Cities
    /\ destinations = <<>>
    /\ categories = <<>>
    /\ selectedCategory = ""
    /\ page = 1
    /\ totalPages = 1
    /\ loading = FALSE
    /\ retries \in 1..MaxRetries
    /\ nCalls = 0
    /\ resolution = [n \in Calls |-> NewResolution]

NextRetry ==
    \/ Search
    \/ \E n \in Calls : \E r \in GeoResponses : GeocodeRespond(n, r)
    \/ \E n \in Calls : OverpassFail(n)
    \/ \E n \in Calls : TimerFire(n)
    \/ \E n \in Calls : \E body \in SampleBodies : OverpassSucceed(n, body)

SpecRetry == InitRetry /\ [][NextRetry]_vars

\* the same where every request is eventually answered (by the service, or
\* for the spatial query by the 60 s timeout of line 108) and every delay of
\* line 114 eventually elapses
Answered(n) ==
    \/ \E r \in GeoResponses : GeocodeRespond(n, r)
    \/ OverpassFail(n)
    \/ \E body \in SampleBodies : OverpassSucceed(n, body)

Fairness == \A n \in Calls : WF_vars(Answered(n)) /\ WF_vars(TimerFire(n))

SpecLive == SpecRetry /\ Fairness

\* the pipeline together with the view handlers
NextView ==
    \/ SetCity
    \/ Search
    \/ \E n \in Calls : \E r \in GeoResponses : GeocodeRespond(n, r)
    \/ \E n \in Calls : OverpassFail(n)
    \/ \E n \in Calls : TimerFire(n)
    \/ \E n \in Calls : \E body \in ViewBodies : OverpassSucceed(n, body)
    \/ SelectCategory
    \/ handlePageChange

SpecView == Init /\ [][NextView]_vars

(***************************************************************************)
(* The mapping of lines 79-90 over a universe of raw elements: each        *)
(* element is answered alone to a call that awaits its first request.      *)
(***************************************************************************)
TagKeys == {"name", "tourism", "historic", "leisure", "amenity"}

TagValue(k) ==
    CASE k = "name"     -> "Louvre"
      [] k = "tourism"  -> "museum"
      [] k = "historic" -> "castle"
      [] k = "leisure"  -> "park"
      [] k = "amenity"  -> "cafe"

\* every tag mapping over TagKeys: a key is absent, empty, or has its value
TagMaps ==
    UNION {{[k \in D |-> IF k \in E THEN "" ELSE TagValue(k)] : E \in SUBSET D} :
           D \in SUBSET TagKeys}

\* a coordinate pair, absent or with either axis 0
Pairs(lat, lon) == {Null} \cup {Some([lat |-> a, lon |-> b]) : a \in {0, lat}, b \in {0, lon}}

MkElement(id, direct, center, tags) ==
    LET D == {"id"} \cup (IF direct # Null THEN {"lat", "lon"} ELSE {})
                    \cup (IF center # Null THEN {"center"} ELSE {})
                    \cup (IF tags # Null THEN {"tags"} ELSE {})
    IN [f \in D |-> CASE f = "id"     -> id
                      [] f = "lat"    -> direct[1].lat
                      [] f = "lon"    -> direct[1].lon
                      [] f = "center" -> center[1]
                      [] f = "tags"   -> tags[1]]

RawElements ==
    {MkElement(7, direct, center, tags) :
        direct \in Pairs(10, 20), center \in Pairs(30, 40),
        tags \in {Null} \cup {Some(t) : t \in TagMaps}}

InitNorm ==
    /\ city = <<"a">>
    /\ destinations = <<>>
    /\ categories = <<>>
    /\ selectedCategory = ""
    /\ page = 1
    /\ totalPages = 1
    /\ loading = TRUE
    /\ retries = DefaultRetries
    /\ nCalls = 1
    /\ resolution = [n \in Calls |->
          IF n = 1
          THEN [NewResolution EXCEPT
                   !.pc = "Fetching", !.city = <<"a">>, !.geoCalls = 1,
                   !.geoServed = <<[kind |-> "ok",
                                    data |-> Some(<<[lat |-> "48.85", lon |-> "2.35"]>>)]>>,
                   !.cityCoordinates = Some([lat |-> "48.85", lon |-> "2.35"]),
                   !.fetchCalls = 1]
          ELSE NewResolution]

NextNorm == \E element \in RawElements : OverpassSucceed(1, [elements |-> <<element>>])

SpecNorm == InitNorm /\ [][NextNorm]_vars

(***************************************************************************)
(* The same over element lists of up to MaxList elements, in which         *)
(* identifiers may repeat and tag mappings may be absent.                  *)
(***************************************************************************)
ListElements ==
    {MkElement(id, direct, Null, tags) :
        id \in {1, 2}, direct \in Pairs(10, 20),
        tags \in {Null, Some(NoTags), Some([tourism |-> "museum"])}}

ElementLists == UNION {[1..len -> ListElements] : len \in 0..MaxList}

NextList == \E elements \in ElementLists : OverpassSucceed(1, [elements |-> elements])

SpecList == InitNorm /\ [][NextList]_vars

(***************************************************************************)
(* Properties.                                                             *)
(***************************************************************************)
Stored(n) == resolution[n].pc = "Done" /\ resolution[n].outcome = "Stored"

\* the raw element and the destination at position k of a stored resolution
RawAt(n, k) == resolution[n].data[1][k]
DestAt(n, k) == resolution[n].result[k]

Started(n) == resolution[n].pc = "Idle" /\ resolution'[n].pc # "Idle"

Finished(n) == resolution[n].pc = "Done"

\* the answers of the point-of-interest service to the requests of call n:
\* k failures followed by one success
FailsThenSucceeds(n, k) ==
    LET served == resolution[n].served
    IN /\ Len(served) = k + 1
       /\ \A j \in 1..k : served[j].kind = "error"
       /\ served[k + 1].kind = "ok"

\* every request of call n has failed, and there were as many as attempts
AllAttemptsFailed(n) ==
    LET served == resolution[n].served
    IN /\ Len(served) = retries
       /\ \A j \in 1..Len(served) : served[j].kind = "error"

\* the geocoding service answered call n, and how
GeoAnswered(n) == resolution[n].geoServed # <<>>
GeoTransportError(n) == GeoAnswered(n) /\ resolution[n].geoServed[1].kind = "error"
GeoMalformed(n) ==
    /\ GeoAnswered(n)
    /\ resolution[n].geoServed[1].kind = "ok"
    /\ resolution[n].geoServed[1].data = Null
GeoZeroMatches(n) ==
    /\ GeoAnswered(n)
    /\ resolution[n].geoServed[1].kind = "ok"
    /\ resolution[n].geoServed[1].data = Some(<<>>)

\* the point-of-interest service answered call n with a body that has no
\* element list, or with an element that has no tag mapping
FetchMalformed(n) ==
    LET served == resolution[n].served
    IN /\ served # <<>>
       /\ served[Len(served)].kind = "ok"
       /\ LET body == served[Len(served)].data
          IN \/ "elements" \notin DOMAIN body
             \/ \E k \in 1..Len(body["elements"]) :
                   "tags" \notin DOMAIN body["elements"][k]

\* C1: a search of a city whose resolution has already completed and been
\* stored is a cache hit: it ends at once with the stored list and issues
\* no geocoding and no spatial-query request.
C1_CacheHitNoNetwork ==
    [][\A m \in Calls :
          (Started(m) /\ \E n \in Calls : Stored(n) /\ resolution[n].city = city)
          => /\ resolution'[m].pc = "Done"
             /\ resolution'[m].geoCalls = 0
             /\ resolution'[m].fetchCalls = 0
             /\ \E n \in Calls : /\ Stored(n)
                                 /\ resolution[n].city = city
                                 /\ resolution'[m].result = resolution[n].result]_vars

\* C2: when the service fails on the first k attempts and succeeds on
\* attempt k+1 (k < retries), the call gets the element list of attempt
\* k+1, has logged exactly k failed attempts, has waited exactly k delays,
\* and has issued exactly k+1 requests; no request follows a success.
C2_FailsThenSucceeds ==
    \A n \in Calls :
        /\ \A j \in 1..(Len(resolution[n].served) - 1) :
              resolution[n].served[j].kind = "error"
        /\ \A k \in 0..(retries - 1) :
              FailsThenSucceeds(n, k)
              => /\ resolution[n].data = Field(resolution[n].served[k + 1].data, "elements")
                 /\ resolution[n].logged = k
                 /\ resolution[n].waits = k
                 /\ resolution[n].fetchCalls = k + 1
                 /\ Finished(n)

\* the case of the specification: two failures, success on the third of three
C2_Witness ==
    /\ retries = 3
    /\ FailsThenSucceeds(1, 2)
    /\ Stored(1)
    /\ resolution[1].logged = 2
    /\ resolution[1].waits = 2

\* C3: no call ever issues more than retries requests or waits more than
\* retries - 1 delays; when every attempt fails the call ends after exactly
\* retries requests and retries - 1 delays, the failure is reported by the
\* catch of fetchDestinations and the call hands over no destinations.
C3_ExhaustedRetries ==
    \A n \in Calls :
        /\ resolution[n].fetchCalls <= retries
        /\ resolution[n].waits <= retries - 1
        /\ resolution[n].waits <= resolution[n].logged
        /\ AllAttemptsFailed(n)
           => /\ Finished(n)
              /\ resolution[n].outcome = "ExhaustedRetries"
              /\ resolution[n].fetchCalls = retries
              /\ resolution[n].logged = retries
              /\ resolution[n].waits = retries - 1
              /\ "Error fetching destinations" \in resolution[n].reports
              /\ resolution[n].result = <<>>
        /\ resolution[n].outcome = "ExhaustedRetries" => AllAttemptsFailed(n)

C3_Witness ==
    /\ retries = 3
    /\ AllAttemptsFailed(1)
    /\ Finished(1)
    /\ resolution[1].fetchCalls = 3
    /\ resolution[1].waits = 2

\* C4: a call whose geocoding request returns zero matches ends with no
\* destinations and never issues a spatial-query request.
C4_ZeroMatchesNoQuery ==
    \A n \in Calls :
        GeoZeroMatches(n)
        => /\ Finished(n)
           /\ resolution[n].result = <<>>
           /\ resolution[n].fetchCalls = 0
           /\ resolution[n].served = <<>>

C4_Witness ==
    /\ GeoZeroMatches(1)
    /\ Finished(1)
    /\ resolution[1].fetchCalls = 0
    /\ ~loading

\* C5: no error escapes fetchDestinations; every failure (zero matches, a
\* geocoding transport error, a malformed answer of either service,
\* exhausted retries) ends the call with no destinations and a logged
\* diagnostic.
C5_FailuresCaught ==
    \A n \in Calls :
        /\ ~resolution[n].escaped
        /\ (\/ GeoZeroMatches(n) \/ GeoTransportError(n) \/ GeoMalformed(n)
            \/ AllAttemptsFailed(n) \/ FetchMalformed(n))
           => /\ Finished(n)
              /\ resolution[n].result = <<>>
              /\ resolution[n].reports \cap {"Error fetching city coordinates",
                                             "Error fetching destinations"} # {}

C5_Witness ==
    /\ AllAttemptsFailed(1) /\ Finished(1)
    /\ FetchMalformed(2) /\ Finished(2)
    /\ ~resolution[1].escaped /\ ~resolution[2].escaped

\* C6: a call issues at most one geocoding request; after a transport
\* error of that request it issues no spatial-query request and ends with
\* no destinations.
C6_GeocodeNotRetried ==
    \A n \in Calls :
        /\ resolution[n].geoCalls <= 1
        /\ Len(resolution[n].geoServed) <= 1
        /\ GeoTransportError(n)
           => /\ Finished(n)
              /\ resolution[n].fetchCalls = 0
              /\ resolution[n].result = <<>>

C6_Witness ==
    /\ GeoTransportError(1)
    /\ Finished(1)
    /\ resolution[1].geoCalls = 1
    /\ resolution[1].fetchCalls = 0

\* C7: a search with an empty or all-blank city text ends at once with no
\* destinations, issues no request, and changes no state of the view.
AllBlanks(s) == \A k \in 1..Len(s) : s[k] = " "

C7_BlankNotAttempted ==
    [][\A m \in Calls :
          (resolution'[m].pc # "Idle" /\ AllBlanks(resolution'[m].city))
          => /\ resolution'[m].pc = "Done"
             /\ resolution'[m].result = <<>>
             /\ resolution'[m].geoCalls = 0
             /\ resolution'[m].fetchCalls = 0
             /\ Started(m) => view' = view]_vars

\* a blank search after a stored one: the stored list stays, loading stays
C7_Witness ==
    /\ Stored(1)
    /\ resolution[2].city = <<" ">>
    /\ Finished(2)
    /\ resolution[2].geoCalls = 0
    /\ destinations = resolution[1].result
    /\ ~loading

\* C8: resolutions of different cities do not interfere: when no call is in
\* flight, the destinations are those of the latest search that stored a
\* list, whatever the order in which the overlapping calls completed.
C8_NoInterference ==
    (\A n \in Calls : ~InFlight(n))
    => \A p, q \in Calls :
          (/\ p < q
           /\ Stored(p) /\ Stored(q)
           /\ resolution[p].city # resolution[q].city
           /\ \A r \in Calls : r > q => ~Stored(r))
          => destinations = resolution[q].result

\* C9: the geoCode of every destination is the element's own lat/lon when
\* the element has them (whatever their value, 0 included), else its
\* center's lat/lon when it has a center, else null on both axes.
ExpectedGeoCode(element) ==
    IF "lat" \in DOMAIN element
    THEN [latitude |-> Some(element["lat"]), longitude |-> Some(element["lon"])]
    ELSE IF "center" \in DOMAIN element
    THEN [latitude  |-> Some(element["center"]["lat"]),
          longitude |-> Some(element["center"]["lon"])]
    ELSE [latitude |-> Null, longitude |-> Null]

C9_GeoCodeOwnThenCenter ==
    \A n \in Calls : Stored(n) =>
        \A k \in 1..Len(resolution[n].result) :
            DestAt(n, k).geoCode = ExpectedGeoCode(RawAt(n, k))

\* C10: the category of every destination is the value of the first tag,
\* in the order tourism, historic, leisure, amenity, that is present and
\* non-empty, and "Unknown" when no such tag exists.
Priority == <<"tourism", "historic", "leisure", "amenity">>

NonEmptyTag(tags, key) == key \in DOMAIN tags /\ tags[key] # ""

C10_CategoryByPriority ==
    \A n \in Calls : Stored(n) =>
        \A k \in 1..Len(resolution[n].result) :
            LET tags == RawAt(n, k)["tags"]
                category == DestAt(n, k).category
            IN /\ \A j \in 1..Len(Priority) :
                    (/\ NonEmptyTag(tags, Priority[j])
                     /\ \A m \in 1..(j - 1) : ~NonEmptyTag(tags, Priority[m]))
                    => category = tags[Priority[j]]
               /\ (\A j \in 1..Len(Priority) : ~NonEmptyTag(tags, Priority[j]))
                    => category = "Unknown"

\* tourism wins over amenity, and an empty tourism tag is passed over
C10_Witness ==
    /\ Stored(1)
    /\ RawAt(1, 1)["tags"] = [tourism |-> "", historic |-> "castle", amenity |-> "cafe"]
    /\ DestAt(1, 1).category = "castle"

\* the element list the point-of-interest service answered to call n with
\* success, if it did
Fetched(n) ==
    LET served == resolution[n].served
    IN IF served # <<>> /\ served[Len(served)].kind = "ok"
       THEN Field(served[Len(served)].data, "elements")
       ELSE Null

\* C11: the mapping of raw elements to destinations is total: whatever list
\* the service answers, tag mappings or tag keys absent or not, the call
\* does not fail and produces one destination per element, with name and
\* category "Unknown" where the tags give none and distance and rating null.
C11_NormalizeTotal ==
    \A n \in Calls :
        (Fetched(n) # Null /\ Fetched(n)[1] # <<>>)
        => /\ resolution[n].outcome = "Stored"
           /\ Len(resolution[n].result) = Len(Fetched(n)[1])
           /\ \A k \in 1..Len(resolution[n].result) :
                 LET element == Fetched(n)[1][k]
                     dest    == resolution[n].result[k]
                     tags    == IF "tags" \in DOMAIN element THEN element["tags"] ELSE NoTags
                 IN /\ dest.id = element["id"]
                    /\ dest.name = IF NonEmptyTag(tags, "name") THEN tags["name"] ELSE "Unknown"
                    /\ (\A j \in 1..Len(Priority) : ~NonEmptyTag(tags, Priority[j]))
                          => dest.category = "Unknown"
                    /\ dest.distance = Null
                    /\ dest.rating = Null

\* C12: the identifiers of the destinations a call produces are pairwise
\* distinct, whatever list the service answers.
C12_IdsDistinct ==
    \A n \in Calls :
        \A j, k \in 1..Len(resolution[n].result) :
            j # k => resolution[n].result[j].id # resolution[n].result[k].id

\* call n receives, in this step, a successful answer with element list es
Receives(n, es) ==
    /\ resolution[n].pc = "Fetching"
    /\ Len(resolution'[n].served) = Len(resolution[n].served) + 1
    /\ LET last == resolution'[n].served[Len(resolution'[n].served)]
       IN last.kind = "ok" /\ Field(last.data, "elements") = Some(es)

\* C13: a successful answer with an empty element list ends the fetch at
\* once, with no further request, and is normalized and stored like any
\* other: the call ends with the empty list as the current destinations.
C13_EmptyListStored ==
    [][\A n \in Calls :
          Receives(n, <<>>)
          => /\ resolution'[n].pc = "Done"
             /\ resolution'[n].fetchCalls = resolution[n].fetchCalls
             /\ destinations' = <<>>
             /\ categories' = <<>>]_vars

\* requests of call n that have been issued and not yet answered
Outstanding(n) ==
    (resolution[n].geoCalls - Len(resolution[n].geoServed))
    + (resolution[n].fetchCalls - Len(resolution[n].served))

\* delays of call n that have elapsed
Elapsed(n) ==
    resolution[n].waits - (IF resolution[n].pc = "Waiting" THEN 1 ELSE 0)

\* C14: the requests of one call form a chain: a spatial-query request is
\* issued only after the geocoding request has returned a coordinate, at
\* most one request of the call is outstanding, and request i+1 is issued
\* only after requests 1..i have all failed and i delays have elapsed.
C14_LinearChain ==
    \A n \in Calls :
        /\ Outstanding(n) \in {0, 1}
        /\ resolution[n].fetchCalls > 0
           => /\ Len(resolution[n].geoServed) = resolution[n].geoCalls
              /\ resolution[n].geoServed[1].kind = "ok"
              /\ resolution[n].geoServed[1].data # Null
              /\ resolution[n].geoServed[1].data[1] # <<>>
              /\ resolution[n].cityCoordinates # Null
        /\ \A j \in 1..(resolution[n].fetchCalls - 1) :
              /\ j <= Len(resolution[n].served)
              /\ resolution[n].served[j].kind = "error"
        /\ Elapsed(n) >= resolution[n].fetchCalls - 1
        /\ resolution[n].pc = "Waiting" => Outstanding(n) = 0
        /\ resolution[n].pc \in {"Geocoding", "Fetching"} => Outstanding(n) = 1

\* the second request of a call is outstanding, after one failure and one delay
C14_Witness ==
    /\ resolution[1].pc = "Fetching"
    /\ resolution[1].fetchCalls = 2
    /\ resolution[1].served = <<[kind |-> "error"]>>
    /\ resolution[1].waits = 1
    /\ Outstanding(1) = 1

\* C15: every call that has started ends, after at most one geocoding
\* request and at most retries spatial-query requests, and once started it
\* is never put back or dropped: it stays in flight until it is done, and
\* stays done.
C15_RunsToCompletion ==
    /\ \A n \in Calls : (resolution[n].pc # "Idle") ~> Finished(n)
    /\ [](\A n \in Calls : /\ resolution[n].geoCalls <= 1
                          /\ resolution[n].fetchCalls <= retries)
    /\ [][\A n \in Calls :
             /\ InFlight(n) => (InFlight(n)' \/ Finished(n)')
             /\ Finished(n) => Finished(n)']_vars

\* a call that used its one geocoding request and all its attempts, and ended
C15_Witness ==
    /\ Finished(1)
    /\ resolution[1].geoCalls = 1
    /\ resolution[1].fetchCalls = retries
    /\ retries = 3

\* C16: overlapping calls for the same city are not coalesced: a search
\* issued while a call for the same city is in flight issues its own
\* geocoding request, and whichever of the overlapping calls completes last
\* with a fetched list leaves exactly that list, normalized, as the
\* destinations.
C16_LastWriterWins ==
    [][\A n \in Calls :
          /\ (/\ Started(n)
              /\ ~AllBlanks(city)
              /\ \E m \in Calls : InFlight(m) /\ resolution[m].city = city)
             => /\ resolution'[n].pc = "Geocoding"
                /\ resolution'[n].geoCalls = 1
          /\ (/\ InFlight(n) /\ Finished(n)'
              /\ Fetched(n)' # Null /\ ~FetchMalformed(n)'
              /\ \E m \in Calls :
                    /\ m # n
                    /\ resolution[m].city = resolution[n].city
                    /\ InFlight(m) \/ (Finished(m) /\ m > n))
             => destinations' = FormatDestinations(Fetched(n)'[1])]_vars

\* C17: loading is true exactly when some call is in flight.
C17_LoadingIffInFlight == loading <=> \E n \in Calls : InFlight(n)

\* the ways a call ends without a non-empty fetched list
EndsWithoutList(n) ==
    \/ AllBlanks(resolution[n].city)
    \/ GeoZeroMatches(n)
    \/ GeoTransportError(n)
    \/ AllAttemptsFailed(n)
    \/ Fetched(n) = Some(<<>>)

\* C18: a call that ends without a non-empty fetched list never stores, and
\* no step of a call other than its storing step changes destinations,
\* categories or totalPages (nor city, selectedCategory, page): of the
\* view, such a call changes loading only, which its last step resets.
C18_FailureLeavesView ==
    /\ [](\A n \in Calls : (Finished(n) /\ EndsWithoutList(n)) => ~Stored(n))
    /\ [][\A n \in Calls :
             (resolution'[n] # resolution[n] /\ ~Stored(n)')
             => /\ UNCHANGED <<destinations, categories, totalPages,
                               city, selectedCategory, page>>
                /\ (Finished(n)' /\ ~Started(n)) => ~loading']_vars

\* a call with an empty answer after a stored one: the stored list stays
C18_Witness ==
    /\ Stored(1)
    /\ Finished(2)
    /\ Fetched(2) = Some(<<>>)
    /\ destinations = resolution[1].result
    /\ categories = CategoriesOf(resolution[1].result)
    /\ ~loading

\* C19: the view is consistent: the page is within 1..totalPages, the
\* selected category is empty or one of the categories, and the displayed
\* slice is non-empty whenever the filtered list is.
C19_ViewConsistent ==
    /\ 1 <= page /\ page <= totalPages
    /\ \/ selectedCategory = ""
       \/ \E k \in 1..Len(categories) : categories[k] = selectedCategory
    /\ filteredDestinations # <<>> => paginatedDestinations # <<>>

=============================================================================
